---- MODULE Spec2Model ----
(***************************************************************************)
(* Model of entry_remove.py: removal of entries, and of the child entries  *)
(* that link to them, from a multi-sheet manifest.                         *)
(*                                                                         *)
(* A workbook is a function from sheet names to sheets; a sheet (and a     *)
(* DataFrame) is a record [cols, rows]: cols is the ordered list of column *)
(* names, rows the ordered list of rows, a row being the list of its cells *)
(* in column order.  A column name is the list of its lexical pieces, so   *)
(* that '"." in c' and 'c.endswith("_id")' are computed, not assumed:      *)
(* "sample.study_id" is <<"sample", ".", "study", "_id">>.  A file name is *)
(* modelled the same way: "manifest.xlsx" is <<"manifest", ".xlsx">>.      *)
(***************************************************************************)
EXTENDS Integers, Sequences, FiniteSets, TLC

\* ------------------------------------------------------------------------
\* Bounds of the model
\* ------------------------------------------------------------------------
MaxRows == 2      \* rows of a generated manifest, all sheets together
MaxReq  == 2      \* lines of a generated entries file

\* ------------------------------------------------------------------------
\* Values
\* ------------------------------------------------------------------------
Ids      == {"a", "b", "c"}           \* identifiers of generated manifests
ReqIds   == {"a", "b"}                \* identifiers of generated entries files
NaN      == "<NaN>"                   \* pandas' missing value
Blank    == "<blank>"                 \* what a missing value is saved as
EmptyStr == ""                        \* a cell read back as the empty string
Today    == "20240101"                \* datetime.date.today(), "%Y%m%d"

\* NA_bank, line 110: the tokens read_excel turns into missing values
NA_bank == {"NA", "na", "N/A", "n/a"}

\* read_csv is called without na_values (line 138): its default tokens
\* (of which the model uses these) are missing values of the entries file
CsvNaDefaults == {"", "NA", "N/A", "n/a", "nan", "NaN", "null", "NULL"}

\* ------------------------------------------------------------------------
\* Sequence helpers
\* ------------------------------------------------------------------------
RECURSIVE KeepUpTo(_, _, _)
KeepUpTo(s, I, n) ==
    IF n = 0 THEN <<>>
    ELSE KeepUpTo(s, I, n - 1) \o (IF n \in I THEN <<s[n]>> ELSE <<>>)

\* the subsequence of s at the indices in I
Keep(s, I) == KeepUpTo(s, I, Len(s))

Range(s) == {s[i] : i \in 1..Len(s)}

\* Python's "x in list": identity or equality.  pandas stores the one
\* numpy.nan object for every missing cell, so a missing value is found by
\* identity; plain equality of the model's NaN stands for that.
PyIn(x, list) == \E i \in 1..Len(list) : list[i] = x

\* pandas' elementwise ==: a missing value equals nothing, itself included
CellEq(x, y) == x # NaN /\ y # NaN /\ x = y

\* the position of column c in cols, 0 when absent
ColIdx(cols, c) ==
    IF \E i \in 1..Len(cols) : cols[i] = c
    THEN CHOOSE i \in 1..Len(cols) : cols[i] = c
    ELSE 0

\* ------------------------------------------------------------------------
\* Column names
\* ------------------------------------------------------------------------
node_id_col(node) == <<node, "_id">>                   \* f"{node}_id"
LinkColOf(node)   == <<node, ".", "parent", "_id">>    \* e.g. sample.study_id
AttrColOf(node)   == <<node, "_type">>                 \* e.g. sample_type

HasDot(c)     == \E i \in 1..Len(c) : c[i] = "."       \* "." in c
EndsWithId(c) == Len(c) > 0 /\ c[Len(c)] = "_id"       \* c.endswith("_id")

\* line 162
link_cols(cols) == Keep(cols, {i \in 1..Len(cols) : HasDot(cols[i]) /\ EndsWithId(cols[i])})

\* ------------------------------------------------------------------------
\* File names (lines 91-98)
\* ------------------------------------------------------------------------
ManifestFile == <<"manifest", ".xlsx">>
TemplateFile == <<"template", ".xlsx">>
EntryFile    == <<"entries", ".tsv">>

\* os.path.splitext(os.path.basename(p))[0]: the name without its extension
Base(path) == SubSeq(path, 1, Len(path) - 1)

\* a save under the name of the input ("in-place")
SaveInPlace(path) == path

out_xlsx(path) == Base(path) \o <<"_EntRemove", Today, ".xlsx">>
log_txt(path)  == Base(path) \o <<"_EntRemove", Today, "_log.txt">>

\* ------------------------------------------------------------------------
\* Input artifacts
\* ------------------------------------------------------------------------
\* the Node column of the Dictionary sheet (generate_example_files)
ExampleDictionary == <<"study", "sample", "sample">>

\* manifest.xlsx of generate_example_files
ExampleManifest ==
    [n \in {"study", "sample"} |->
        IF n = "study"
        THEN [cols |-> << <<"study", "_id">>, <<"study", "_name">> >>,
              rows |-> << <<"S1", "Alpha">>, <<"S2", "Beta">> >>]
        ELSE [cols |-> << <<"sample", "_id">>, <<"sample", ".", "study", "_id">>,
                          <<"sample", "_type">> >>,
              rows |-> << <<"A", "S1", "tumor">>, <<"B", "S1", "normal">>,
                          <<"C", "S2", "tumor">> >>]]

\* entries.tsv of generate_example_files
ExampleEntries == <<"S1">>

Nodes == {"study", "sample"}

\* a manifest with a parent a, its child b, and below each of the two a row
\* whose identifier cell holds a missing-value token
OrphanManifest ==
    [n \in {"study"} |->
        [cols |-> << <<"study", "_id">>, <<"study", ".", "parent", "_id">>,
                     <<"study", "_type">> >>,
         rows |-> << <<"NA", "a", "tumor">>, <<"b", "a", "tumor">>,
                     <<"NA", "b", "tumor">> >>]]

\* column layouts of a generated sheet
Shapes == {"full", "plain", "noid", "linkonly"}

ShapeCols(node, shape) ==
    CASE shape = "full"     -> <<node_id_col(node), LinkColOf(node), AttrColOf(node)>>
      [] shape = "plain"    -> <<node_id_col(node), AttrColOf(node)>>
      [] shape = "noid"     -> <<LinkColOf(node), AttrColOf(node)>>
      [] shape = "linkonly" -> <<LinkColOf(node)>>

\* the raw texts a generated cell of column c can hold
RawCells(c) == IF EndsWithId(c) THEN Ids \cup {"NA"} ELSE {"tumor"}

RowsOver(cols) == {r \in [1..Len(cols) -> Ids \cup {"NA", "tumor"}] :
                      \A j \in 1..Len(cols) : r[j] \in RawCells(cols[j])}

\* the sheets of node with exactly k rows
SheetsOf(node, k) ==
    UNION {{[cols |-> ShapeCols(node, sh), rows |-> rs] :
                rs \in [1..k -> RowsOver(ShapeCols(node, sh))]} : sh \in Shapes}

NoSheet == [cols |-> <<>>, rows |-> <<>>, absent |-> TRUE]

\* a workbook holds a sheet for some of the nodes
MkWorkbook(s1, s2) ==
    [n \in {m \in Nodes : (IF m = "study" THEN s1 ELSE s2) # NoSheet} |->
        IF n = "study" THEN s1 ELSE s2]

GeneratedManifests ==
    UNION {{MkWorkbook(s1, s2) :
                s1 \in SheetsOf("study", k1) \cup (IF k1 = 0 THEN {NoSheet} ELSE {}),
                s2 \in SheetsOf("sample", k2) \cup (IF k2 = 0 THEN {NoSheet} ELSE {})} :
           <<k1, k2>> \in {kk \in (0..MaxRows) \X (0..MaxRows) : kk[1] + kk[2] <= MaxRows}}

GeneratedEntries ==
    UNION {[1..n -> ReqIds \cup {"NA"}] : n \in 0..MaxReq}

\* ------------------------------------------------------------------------
\* pandas operations on a DataFrame [cols, rows]
\* ------------------------------------------------------------------------
\* drop_empty, lines 16-20: dropna(how="all") along an axis
drop_empty(df, axis) ==
    IF axis = 1
    THEN LET keepc == {j \in 1..Len(df.cols) :
                          \E i \in 1..Len(df.rows) : df.rows[i][j] # NaN}
         IN  [cols |-> Keep(df.cols, keepc),
              rows |-> [i \in 1..Len(df.rows) |-> Keep(df.rows[i], keepc)]]
    ELSE LET keepr == {i \in 1..Len(df.rows) :
                          \E j \in 1..Len(df.cols) : df.rows[i][j] # NaN}
         IN  [cols |-> df.cols, rows |-> Keep(df.rows, keepr)]

\* dict_df['Node'].unique().tolist(), line 107: first appearances, in order
Unique(s) == Keep(s, {i \in 1..Len(s) : \A j \in 1..(i - 1) : s[j] # s[i]})

\* How a cell that was saved from a missing value reads back is decided by
\* openpyxl and pandas, not by this program: blankAs is one of
\*   "nan"   the cell reads as a missing value,
\*   "empty" the cell reads as the empty string (keep_default_na=False),
\*   "error" reading the sheet raises ValueError.
BlankOutcomes == {"nan", "empty", "error"}

ReadCell(raw, blankAs) ==
    IF raw \in NA_bank THEN NaN
    ELSE IF raw = Blank THEN (IF blankAs = "empty" THEN EmptyStr ELSE NaN)
    ELSE raw

HasBlank(sheet) ==
    \E i \in 1..Len(sheet.rows) : \E j \in 1..Len(sheet.cols) : sheet.rows[i][j] = Blank

\* raise ValueError, as a value
ValueError == [cols |-> <<>>, rows |-> <<>>, raised |-> "ValueError"]

\* pd.read_excel(manifest_path, sheet_name=node, dtype=str, na_values=NA_bank,
\* keep_default_na=False), lines 114-121: the frame, or ValueError
read_excel(wb, node, blankAs) ==
    IF node \notin DOMAIN wb THEN ValueError
    ELSE IF blankAs = "error" /\ HasBlank(wb[node]) THEN ValueError
    ELSE [cols |-> wb[node].cols,
          rows |-> [i \in 1..Len(wb[node].rows) |->
                       [j \in 1..Len(wb[node].cols) |->
                           ReadCell(wb[node].rows[i][j], blankAs)]]]

\* a test that asks for a row only, not for a column without a "."
UsableWithAnyColumn(df) ==
    Len(drop_empty(drop_empty(df, 1), 0).rows) > 0

\* lines 126-131: is the frame kept in the working set
Usable(df) ==
    LET df2       == drop_empty(drop_empty(df, 1), 0)
        real_cols == Keep(df2.cols, {j \in 1..Len(df2.cols) : ~HasDot(df2.cols[j])})
    IN  Len(df2.rows) > 0 /\ real_cols # <<>>

\* the loop of lines 112-132 over node_list[from..]: workbook_list is an
\* insertion-ordered dict, modelled as the list of its (node, frame) items
RECURSIVE LoadSheets(_, _, _, _)
LoadSheets(wb, nodes, blankAs, from) ==
    IF from > Len(nodes) THEN <<>>
    ELSE LET df   == read_excel(wb, nodes[from], blankAs)
             rest == LoadSheets(wb, nodes, blankAs, from + 1)
         IN  IF df = ValueError THEN rest
             ELSE IF Usable(df)
                  THEN <<[node |-> nodes[from], cols |-> df.cols, rows |-> df.rows]>> \o rest
                  ELSE rest

\* a reading that also drops the repeated lines
ParseEntriesUnique(lines) ==
    Unique(Keep(lines, {i \in 1..Len(lines) : lines[i] \notin CsvNaDefaults}))

\* entries_df['X1'].dropna().tolist(), lines 138-139
ParseEntries(lines) == Keep(lines, {i \in 1..Len(lines) : lines[i] \notin CsvNaDefaults})


\* ------------------------------------------------------------------------
\* The removal loop, lines 148-169.  The loop state is the record
\*   [wl, pending, deleted, log, err]
\* wl the working set, err the exception that ended the iteration ("" while
\* there is none).  A log line is a tuple: <<"Removing", curr>>,
\* <<"dropped", curr, node, column>>, <<"discovered", child, node, column>>.
\* ------------------------------------------------------------------------
\* df[df[node_id_col] == curr].index.tolist(), line 155
hits(rows, idx, curr) == {i \in 1..Len(rows) : CellEq(rows[i][idx], curr)}

\* a drop that removes the first hit only
DropFirstHit(rows, hs) ==
    Keep(rows, (1..Len(rows)) \ {CHOOSE i \in hs : \A j \in hs : i <= j})

\* df.drop(index=hits, inplace=True), line 159
DropRows(rows, hs) == Keep(rows, (1..Len(rows)) \ hs)

\* df[df[lc] == curr], line 164
matching(rows, j, curr) == Keep(rows, {i \in 1..Len(rows) : CellEq(rows[i][j], curr)})

\* a guard that looks at the deletion record only
ChildNotDeleted(child, deletedOfNode, pend) == ~PyIn(child, deletedOfNode)

\* a child that is always taken for new
ChildAlwaysNew(child, deletedOfNode, pend) == TRUE

\* line 167
ChildIsNew(child, deletedOfNode, pend) ==
    ~PyIn(child, deletedOfNode) /\ ~PyIn(child, pend)

\* lines 165-169 over matches[m..]; row[f"{node}_id"] raises KeyError when
\* the frame has no such column
RECURSIVE Discover(_, _, _, _, _)
Discover(st, k, lc, matches, m) ==
    IF st.err # "" \/ m > Len(matches) THEN st
    ELSE LET node == st.wl[k].node
             idx  == ColIdx(st.wl[k].cols, node_id_col(node))
         IN  IF idx = 0 THEN [st EXCEPT !.err = "KeyError"]
             ELSE LET child == matches[m][idx]
                      st1   == IF ChildIsNew(child, st.deleted[node], st.pending)
                               THEN [st EXCEPT
                                       !.pending = Append(@, child),
                                       !.log = Append(@, <<"discovered", child, node, lc>>)]
                               ELSE st
                  IN  Discover(st1, k, lc, matches, m + 1)

\* lines 163-169 over lcs[n..]
RECURSIVE ScanLinks(_, _, _, _, _)
ScanLinks(st, k, curr, lcs, n) ==
    IF st.err # "" \/ n > Len(lcs) THEN st
    ELSE LET rows == st.wl[k].rows
             j    == ColIdx(st.wl[k].cols, lcs[n])
         IN  ScanLinks(Discover(st, k, lcs[n], matching(rows, j, curr), 1),
                       k, curr, lcs, n + 1)

\* direct hits that record curr before looking for its rows
DirectHitsAlwaysRecord(st, k, curr) ==
    LET node == st.wl[k].node
        idx  == ColIdx(st.wl[k].cols, node_id_col(node))
        hs   == IF idx = 0 THEN {} ELSE hits(st.wl[k].rows, idx, curr)
        st0  == [st EXCEPT !.deleted[node] = Append(@, curr)]
    IN  IF hs # {}
        THEN [st0 EXCEPT
                !.log = Append(@, <<"dropped", curr, node, node_id_col(node)>>),
                !.wl[k].rows = DropRows(@, hs)]
        ELSE st0

\* direct hits that are looked for in the first frame only
DirectHitsFirstFrameOnly(st, k, curr) ==
    LET node == st.wl[k].node
        idx  == ColIdx(st.wl[k].cols, node_id_col(node))
        hs   == IF idx = 0 \/ k > 1 THEN {} ELSE hits(st.wl[k].rows, idx, curr)
    IN  IF hs # {}
        THEN [st EXCEPT
                !.deleted[node] = Append(@, curr),
                !.log = Append(@, <<"dropped", curr, node, node_id_col(node)>>),
                !.wl[k].rows = DropRows(@, hs)]
        ELSE st

\* lines 152-159: the direct hits of curr in the k-th frame
DirectHits(st, k, curr) ==
    LET node == st.wl[k].node
        idx  == ColIdx(st.wl[k].cols, node_id_col(node))
        hs   == IF idx = 0 THEN {} ELSE hits(st.wl[k].rows, idx, curr)
    IN  IF hs # {}
        THEN [st EXCEPT
                !.deleted[node] = Append(@, curr),
                !.log = Append(@, <<"dropped", curr, node, node_id_col(node)>>),
                !.wl[k].rows = DropRows(@, hs)]
        ELSE st

\* the body of "for node, df in workbook_list.items()" over wl[k..]
RECURSIVE ForNodes(_, _, _)
ForNodes(st, curr, k) ==
    IF st.err # "" \/ k > Len(st.wl) THEN st
    ELSE LET st1 == DirectHits(st, k, curr)
         IN  ForNodes(ScanLinks(st1, k, curr, link_cols(st1.wl[k].cols), 1), curr, k + 1)

\* an iteration that takes its entry from the back of the worklist
IterationFromBack(st) ==
    LET curr == st.pending[Len(st.pending)]
    IN  ForNodes([st EXCEPT !.pending = SubSeq(@, 1, Len(@) - 1),
                            !.log = Append(@, <<"Removing", curr>>)],
                 curr, 1)

\* one iteration of "while pending", lines 149-169
Iteration(st) ==
    LET curr == Head(st.pending)
    IN  ForNodes([st EXCEPT !.pending = Tail(@),
                            !.log = Append(@, <<"Removing", curr>>)],
                 curr, 1)

\* lines 145-146: the header and the request, one entry a line
LogHeader(pend) == <<<<"Entries to remove">>>> \o [i \in 1..Len(pend) |-> <<"entry", pend[i]>>]

\* lines 172-174: one line a node, in the order of the dict "deleted"
LogSummary(wl, del) ==
    <<<<"Summary">>>> \o [k \in 1..Len(wl) |-> <<"sheet", wl[k].node, del[wl[k].node]>>]

\* ------------------------------------------------------------------------
\* Writing the workbook, lines 177-190
\* ------------------------------------------------------------------------
\* ws.append(r) of a row of the frame: a missing value leaves no text
WriteCell(c) == IF c = NaN THEN Blank ELSE c

SheetOfFrame(item) ==
    [cols |-> item.cols,
     rows |-> [i \in 1..Len(item.rows) |->
                  [j \in 1..Len(item.cols) |-> WriteCell(item.rows[i][j])]]]

\* the sheets of the loaded workbook, those of the working set replaced
PersistWorkbook(wb, wl) ==
    LET kept == {wl[k].node : k \in 1..Len(wl)}
        new  == [n \in DOMAIN wb \cup kept |->
                    IF n \in kept
                    THEN SheetOfFrame(wl[CHOOSE k \in 1..Len(wl) : wl[k].node = n])
                    ELSE wb[n]]
    IN  IF DOMAIN new = {} THEN [n \in {"Sheet1"} |-> [cols |-> <<>>, rows |-> <<>>]]
        ELSE new

\* ------------------------------------------------------------------------
\* State
\* ------------------------------------------------------------------------
VARIABLES
    fs,             \* the files: name -> contents
    manifest_path,  \* args.file
    run,            \* 1 for the first run, 2 for the run on its output
    blankAs,        \* how saved missing values read back (BlankOutcomes)
    pc,             \* position in main()
    err,            \* why the run failed, "" if it has not
    node_list,      \* line 107
    workbook_list,  \* line 111, the working set
    pending,        \* line 139, the worklist
    deleted,        \* line 141, node -> entries removed from it
    log,            \* the lines written to the log so far
    logOpen,        \* the "with open(log_txt)" block is active
    flow            \* the state of the flow run_entry_remove that wraps main()

vars == <<fs, manifest_path, run, blankAs, pc, err, node_list, workbook_list,
          pending, deleted, log, logOpen, flow>>

\* main() is run from the command line, by no flow
NoFlow == [pc |-> "none"]

WriteFile(name, contents) == [n \in DOMAIN fs \cup {name} |-> IF n = name THEN contents ELSE fs[n]]

Fresh ==
    /\ pc = "start"
    /\ err = ""
    /\ node_list = <<>>
    /\ workbook_list = <<>>
    /\ pending = <<>>
    /\ deleted = <<>>
    /\ log = <<>>
    /\ logOpen = FALSE

InputFiles(wb, dict, entries) ==
    [n \in {ManifestFile, TemplateFile, EntryFile} |->
        IF n = ManifestFile THEN wb ELSE IF n = TemplateFile THEN dict ELSE entries]

Init ==
    /\ \/ \E wb \in GeneratedManifests, entries \in GeneratedEntries :
              fs = InputFiles(wb, ExampleDictionary, entries)
       \/ fs = InputFiles(ExampleManifest, ExampleDictionary, ExampleEntries)
       \/ \E entries \in GeneratedEntries :
              fs = InputFiles(OrphanManifest, ExampleDictionary, entries)
    /\ manifest_path = ManifestFile
    /\ run = 1
    /\ blankAs = "nan"
    /\ Fresh
    /\ flow = NoFlow

Fail(why) ==
    /\ pc' = "failed"
    /\ err' = why

\* lines 82-98: the three paths are required
ParseArgs ==
    /\ pc = "start"
    /\ \E given \in BOOLEAN :
          IF given THEN pc' = "schema" /\ err' = err ELSE Fail("usage")
    /\ UNCHANGED <<fs, manifest_path, run, blankAs, node_list, workbook_list,
                   pending, deleted, log, logOpen>>
    /\ UNCHANGED flow

\* lines 101-107
ReadDictionary ==
    /\ pc = "schema"
    /\ \E readable \in BOOLEAN :
          IF readable
          THEN /\ node_list' = Unique(fs[TemplateFile])
               /\ pc' = "load"
               /\ err' = err
          ELSE /\ Fail("schema")
               /\ node_list' = node_list
    /\ UNCHANGED <<fs, manifest_path, run, blankAs, workbook_list,
                   pending, deleted, log, logOpen>>
    /\ UNCHANGED flow

\* lines 109-135
LoadManifest ==
    /\ pc = "load"
    /\ LET wl == LoadSheets(fs[manifest_path], node_list, blankAs, 1)
       IN  /\ workbook_list' = wl
           /\ IF wl = <<>> THEN Fail("validation") ELSE pc' = "entries" /\ err' = err
    /\ UNCHANGED <<fs, manifest_path, run, blankAs, node_list,
                   pending, deleted, log, logOpen>>
    /\ UNCHANGED flow

\* lines 137-141; read_csv raises EmptyDataError on a file without lines
ReadEntries ==
    /\ pc = "entries"
    /\ IF fs[EntryFile] = <<>>
       THEN /\ Fail("entries")
            /\ UNCHANGED <<pending, deleted>>
       ELSE /\ pending' = ParseEntries(fs[EntryFile])
            /\ deleted' = [n \in {workbook_list[k].node : k \in 1..Len(workbook_list)} |-> <<>>]
            /\ pc' = "openlog"
            /\ err' = err
    /\ UNCHANGED <<fs, manifest_path, run, blankAs, node_list, workbook_list,
                   log, logOpen>>
    /\ UNCHANGED flow

\* lines 144-146
OpenLog ==
    /\ pc = "openlog"
    /\ logOpen' = TRUE
    /\ log' = LogHeader(pending)
    /\ fs' = WriteFile(log_txt(manifest_path), <<>>)
    /\ pc' = "loop"
    /\ UNCHANGED <<manifest_path, run, blankAs, err, node_list, workbook_list,
                   pending, deleted>>
    /\ UNCHANGED flow

\* lines 148-169: one iteration; an exception leaves the with block, which
\* closes the log, and ends the run
Step ==
    /\ pc = "loop"
    /\ pending # <<>>
    /\ LET st == Iteration([wl |-> workbook_list, pending |-> pending,
                            deleted |-> deleted, log |-> log, err |-> ""])
       IN  /\ workbook_list' = st.wl
           /\ pending' = st.pending
           /\ deleted' = st.deleted
           /\ log' = st.log
           /\ IF st.err # ""
              THEN /\ Fail(st.err)
                   /\ logOpen' = FALSE
                   /\ fs' = WriteFile(log_txt(manifest_path), st.log)
              ELSE /\ UNCHANGED <<pc, err, logOpen, fs>>
    /\ UNCHANGED <<manifest_path, run, blankAs, node_list>>
    /\ UNCHANGED flow

\* a summary after which the log stays open
SummaryLeavesOpen ==
    /\ pc = "loop"
    /\ pending = <<>>
    /\ log' = log \o LogSummary(workbook_list, deleted)
    /\ logOpen' = TRUE
    /\ fs' = fs
    /\ pc' = "persist"
    /\ UNCHANGED <<manifest_path, run, blankAs, err, node_list, workbook_list,
                   pending, deleted>>
    /\ UNCHANGED flow

\* lines 171-174 and the end of the with block
Summary ==
    /\ pc = "loop"
    /\ pending = <<>>
    /\ log' = log \o LogSummary(workbook_list, deleted)
    /\ logOpen' = FALSE
    /\ fs' = WriteFile(log_txt(manifest_path), log')
    /\ pc' = "persist"
    /\ UNCHANGED <<manifest_path, run, blankAs, err, node_list, workbook_list,
                   pending, deleted>>
    /\ UNCHANGED flow

HasBlanks(wb) == \E n \in DOMAIN wb : HasBlank(wb[n])

\* load_workbook(manifest_path), line 177, reads every sheet of the workbook
Loadable(wb, how) == ~(how = "error" /\ HasBlanks(wb))

\* lines 176-192
Persist ==
    /\ pc = "persist"
    /\ \E saved \in {TRUE, FALSE} :
          IF saved /\ Loadable(fs[manifest_path], blankAs)
          THEN /\ fs' = WriteFile(out_xlsx(manifest_path),
                                  PersistWorkbook(fs[manifest_path], workbook_list))
               /\ pc' = "done"
               /\ err' = err
          ELSE /\ Fail("persist")
               /\ fs' = fs
    /\ UNCHANGED <<manifest_path, run, blankAs, node_list, workbook_list,
                   pending, deleted, log, logOpen>>
    /\ UNCHANGED flow

\* the program is run again, on the workbook it has just written, with the
\* same template and entries
Rerun ==
    /\ pc = "done"
    /\ run = 1
    /\ run' = 2
    /\ manifest_path' = out_xlsx(manifest_path)
    /\ blankAs' \in (IF HasBlanks(fs[out_xlsx(manifest_path)]) THEN BlankOutcomes ELSE {"nan"})
    /\ pc' = "start"
    /\ node_list' = <<>>
    /\ workbook_list' = <<>>
    /\ pending' = <<>>
    /\ deleted' = <<>>
    /\ log' = <<>>
    /\ UNCHANGED <<fs, err, logOpen>>
    /\ UNCHANGED flow

Next ==
    \/ ParseArgs
    \/ ReadDictionary
    \/ LoadManifest
    \/ ReadEntries
    \/ OpenLog
    \/ Step
    \/ Summary
    \/ Persist
    \/ Rerun

Spec == Init /\ [][Next]_vars


\* ------------------------------------------------------------------------
\* The flow run_entry_remove (flows/entry_remove_flow.py), which stages the
\* inputs, runs main() as a subprocess and ships the outputs.  While a flow
\* runs, the variable flow is the record
\*   [pc, paths, s3_output_prefix, boto3, s3_ok, bucket, staged, returncode,
\*    uploaded, err]
\* paths gives for every input whether its path is a local file that
\* exists ("local"), a local file that does not ("missing") or an s3:// URL
\* ("s3"); s3_output_prefix tells whether an output location is configured;
\* boto3 whether the module could be imported; s3_ok whether the transfers
\* succeed; bucket is the remote storage, name -> contents.
\* ------------------------------------------------------------------------
FlowInputs == <<ManifestFile, TemplateFile, EntryFile>>

PathKinds == {"local", "missing", "s3"}

\* outputs_glob, line 190: "*_EntRemove*.xlsx" matched against a file name
outputs_glob(name) ==
    /\ name[Len(name)] = ".xlsx"
    /\ \E i \in 1..(Len(name) - 1) : name[i] = "_EntRemove"

\* resolve, lines 52-71, for the inputs from the i-th on: st is [fs, staged, err]
RECURSIVE resolve(_, _, _)
resolve(st, fl, i) ==
    IF st.err # "" \/ i > Len(FlowInputs) THEN st
    ELSE LET p == FlowInputs[i]
         IN  IF fl.paths[p] = "s3"
             THEN IF ~fl.boto3 THEN [st EXCEPT !.err = "RuntimeError"]
                  ELSE IF ~fl.s3_ok THEN [st EXCEPT !.err = "ClientError"]
                  ELSE resolve([st EXCEPT
                                  !.fs = [n \in DOMAIN st.fs \cup {p} |->
                                             IF n = p THEN fl.bucket[p] ELSE st.fs[n]],
                                  !.staged = Append(@, p)],
                               fl, i + 1)
             ELSE IF p \notin DOMAIN st.fs THEN [st EXCEPT !.err = "FileNotFoundError"]
                  ELSE resolve([st EXCEPT !.staged = Append(@, p)], fl, i + 1)

\* the core variables while main() has not been started
Idle ==
    /\ pc = "idle"
    /\ err = ""
    /\ node_list = <<>>
    /\ workbook_list = <<>>
    /\ pending = <<>>
    /\ deleted = <<>>
    /\ log = <<>>
    /\ logOpen = FALSE

\* lines 180-252: the parameters of a flow run, keys already turned into URLs
FlowInit ==
    /\ \E kinds \in [Range(FlowInputs) -> PathKinds], prefix, b3, ok \in BOOLEAN :
          LET all == InputFiles(ExampleManifest, ExampleDictionary, ExampleEntries)
          IN  /\ fs = [n \in {m \in Range(FlowInputs) : kinds[m] = "local"} |-> all[n]]
              /\ flow = [pc |-> "stage", paths |-> kinds, s3_output_prefix |-> prefix,
                         boto3 |-> b3, s3_ok |-> ok,
                         bucket |-> [n \in {m \in Range(FlowInputs) : kinds[m] = "s3"} |-> all[n]],
                         staged |-> <<>>, returncode |-> "none", uploaded |-> {}, err |-> ""]
    /\ manifest_path = ManifestFile
    /\ run = 1
    /\ blankAs = "nan"
    /\ Idle

CoreVars == <<manifest_path, run, blankAs, pc, err, node_list, workbook_list,
              pending, deleted, log, logOpen>>

\* lines 36-76 and 255
stage_inputs ==
    /\ flow.pc = "stage"
    /\ LET st == resolve([fs |-> fs, staged |-> <<>>, err |-> ""], flow, 1)
       IN  /\ fs' = st.fs
           /\ flow' = [flow EXCEPT !.staged = st.staged,
                                   !.err = st.err,
                                   !.pc = IF st.err = "" THEN "run" ELSE "failed"]
    /\ UNCHANGED CoreVars

\* lines 79-111 and 258: the subprocess is started on the staged paths
run_entry_remove_script ==
    /\ flow.pc = "run"
    /\ pc = "idle"
    /\ pc' = "start"
    /\ flow' = [flow EXCEPT !.pc = "running"]
    /\ UNCHANGED <<fs, manifest_path, run, blankAs, err, node_list, workbook_list,
                   pending, deleted, log, logOpen>>

\* lines 106-119: subprocess.run returns when main() has ended
SubprocessReturns ==
    /\ flow.pc = "running"
    /\ pc \in {"done", "failed"}
    /\ flow' = [flow EXCEPT !.returncode = IF pc = "done" THEN "0" ELSE "1",
                            !.pc = "ship"]
    /\ UNCHANGED <<fs, CoreVars>>

\* the files of the working directory that the glob of line 148 yields
GlobbedOutputs == {n \in DOMAIN fs : outputs_glob(n)}

\* lines 122-153 and 261
ship_outputs_to_s3 ==
    /\ flow.pc = "ship"
    /\ IF ~flow.s3_output_prefix
       THEN flow' = [flow EXCEPT !.pc = "publish"]
       ELSE IF ~flow.boto3
       THEN flow' = [flow EXCEPT !.pc = "failed", !.err = "RuntimeError"]
       ELSE IF GlobbedOutputs # {} /\ ~flow.s3_ok
       THEN flow' = [flow EXCEPT !.pc = "failed", !.err = "ClientError"]
       ELSE flow' = [flow EXCEPT
                        !.pc = "publish",
                        !.uploaded = GlobbedOutputs,
                        !.bucket = [n \in DOMAIN flow.bucket \cup GlobbedOutputs |->
                                       IF n \in GlobbedOutputs THEN fs[n]
                                       ELSE flow.bucket[n]]]
    /\ UNCHANGED <<fs, CoreVars>>

\* lines 156-176 and 264-266
publish_run_summary ==
    /\ flow.pc = "publish"
    /\ flow' = [flow EXCEPT !.pc = "completed"]
    /\ UNCHANGED <<fs, CoreVars>>

FlowNext ==
    \/ stage_inputs
    \/ run_entry_remove_script
    \/ ParseArgs
    \/ ReadDictionary
    \/ LoadManifest
    \/ ReadEntries
    \/ OpenLog
    \/ Step
    \/ Summary
    \/ Persist
    \/ SubprocessReturns
    \/ ship_outputs_to_s3
    \/ publish_run_summary

FlowSpec == FlowInit /\ [][FlowNext]_vars

\* ------------------------------------------------------------------------
\* Vocabulary of the properties
\* ------------------------------------------------------------------------
\* the working set as it was loaded by this run
Loaded == LoadSheets(fs[manifest_path], node_list, blankAs, 1)

\* the while loop has been left because the worklist was empty
Exhausted == pc \in {"persist", "done"} \/ (pc = "failed" /\ err = "persist")

\* the entries removed during the run, from any sheet
RemovedEntries == UNION {Range(deleted[n]) : n \in DOMAIN deleted}

IdIdx(item) == ColIdx(item.cols, node_id_col(item.node))

LinkIdxs(item) == {j \in 1..Len(item.cols) : HasDot(item.cols[j]) /\ EndsWithId(item.cols[j])}

\* the cells of column j of a frame
Column(item, j) == {item.rows[i][j] : i \in 1..Len(item.rows)}

\* C1 (as claimed): when the worklist is exhausted, no surviving row of a
\* working-set table has, in a link column, an entry that was removed
\* during the run.
CascadingClosure ==
    Exhausted =>
        \A k \in 1..Len(workbook_list) :
            \A j \in LinkIdxs(workbook_list[k]) :
                Column(workbook_list[k], j) \cap RemovedEntries = {}

\* C2: after the run no working-set table has a row whose identifier column
\* holds an entry of the removal request.
DirectRemovalComplete ==
    Exhausted =>
        \A k \in 1..Len(workbook_list) :
            IdIdx(workbook_list[k]) # 0 =>
                Column(workbook_list[k], IdIdx(workbook_list[k])) \cap Range(fs[EntryFile]) = {}

\* a run has ended in which a requested entry was an identifier of two rows
\* of a loaded table
DirectRemovalWitness ==
    /\ Exhausted
    /\ \E k \in 1..Len(Loaded) :
          /\ IdIdx(Loaded[k]) # 0
          /\ \E i1, i2 \in 1..Len(Loaded[k].rows) :
                /\ i1 # i2
                /\ Loaded[k].rows[i1][IdIdx(Loaded[k])] = Loaded[k].rows[i2][IdIdx(Loaded[k])]
                /\ Loaded[k].rows[i1][IdIdx(Loaded[k])] \in Range(fs[EntryFile]) \ {"NA"}


\* the identifiers of the rows of the tables L that link to a member of S:
\* what the scan of lines 161-169 reads as the children of the entries of S
ChildrenOf(L, S) ==
    UNION {{L[k].rows[i][IdIdx(L[k])] :
                i \in {i2 \in 1..Len(L[k].rows) :
                          \E j \in LinkIdxs(L[k]) :
                              \E e \in S : CellEq(L[k].rows[i2][j], e)}} :
           k \in {k2 \in 1..Len(L) : IdIdx(L[k2]) # 0}}

\* the least set that holds S and the children of its members
RECURSIVE LeastClosed(_, _)
LeastClosed(L, S) ==
    IF ChildrenOf(L, S) \subseteq S THEN S ELSE LeastClosed(L, S \cup ChildrenOf(L, S))

IsOneToOne(s) == \A i, j \in 1..Len(s) : s[i] = s[j] => i = j

\* C3 (as claimed): with R the least set that holds the request and the
\* identifier of every working-set row that links to a member of R, at the
\* end of the run the surviving rows of a table are exactly its rows whose
\* identifier is not in R, in their order, and the deletion record of a
\* node-kind holds exactly the members of R found in its identifier column.
ExactResult ==
    Exhausted =>
        LET L == Loaded
            R == LeastClosed(L, Range(ParseEntries(fs[EntryFile])))
        IN  \A k \in 1..Len(workbook_list) :
                LET was == L[k]
                    idx == IdIdx(was)
                IN  /\ workbook_list[k].node = was.node
                    /\ workbook_list[k].rows =
                          IF idx = 0 THEN was.rows
                          ELSE Keep(was.rows, {i \in 1..Len(was.rows) : was.rows[i][idx] \notin R})
                    /\ IsOneToOne(deleted[was.node])
                    /\ Range(deleted[was.node]) =
                          IF idx = 0 THEN {} ELSE R \cap Column(was, idx)

\* the parents of the members of S: the link values of the rows they name
ParentsOf(L, S) ==
    UNION {UNION {{L[k].rows[i][j] : j \in LinkIdxs(L[k])} \ {NaN} :
                     i \in {i2 \in 1..Len(L[k].rows) : L[k].rows[i2][IdIdx(L[k])] \in S \ {NaN}}} :
           k \in {k2 \in 1..Len(L) : IdIdx(L[k2]) # 0}}

RECURSIVE Ancestors(_, _)
Ancestors(L, S) ==
    IF ParentsOf(L, S) \subseteq S THEN S ELSE Ancestors(L, S \cup ParentsOf(L, S))

\* no identifier of the tables L is its own ancestor
Acyclic(L) ==
    \A k \in 1..Len(L) :
        IdIdx(L[k]) # 0 =>
            \A x \in Column(L[k], IdIdx(L[k])) : x \notin Ancestors(L, ParentsOf(L, {x}))

SummaryWritten == \E i \in 1..Len(log) : log[i] = <<"Summary">>

\* the while loop was entered and has been left
LoopLeft == log # <<>> /\ pc \in {"persist", "done", "failed"}

\* C4 (as claimed): on data whose reference graph is acyclic the loop, once
\* entered, ends with an empty worklist and the summary is written.
TerminatesOnAcyclic ==
    (LoopLeft /\ Acyclic(Loaded)) => (pending = <<>> /\ SummaryWritten)

\* C5 (as claimed): a run that fails leaves neither its log nor its output
\* workbook, a run that succeeds leaves both.
AllOrNothing ==
    /\ pc = "failed" =>
          /\ log_txt(manifest_path) \notin DOMAIN fs
          /\ out_xlsx(manifest_path) \notin DOMAIN fs
    /\ pc = "done" =>
          /\ log_txt(manifest_path) \in DOMAIN fs
          /\ out_xlsx(manifest_path) \in DOMAIN fs


\* C6: no step changes the input workbook; the cleaned workbook is written
\* under another name, one that no file had before, made of the input's
\* base name, the tag and the date.
NonDestructiveInput ==
    [][/\ manifest_path \in DOMAIN fs'
       /\ fs'[manifest_path] = fs[manifest_path]
       /\ fs'[ManifestFile] = fs[ManifestFile]
       /\ (pc = "persist" /\ pc' = "done") =>
             /\ out_xlsx(manifest_path) # manifest_path
             /\ out_xlsx(manifest_path) \notin DOMAIN fs
             /\ out_xlsx(manifest_path) \in DOMAIN fs'
             /\ out_xlsx(manifest_path) = Base(manifest_path) \o <<"_EntRemove", Today, ".xlsx">>
      ]_vars

\* a run has written a cleaned workbook that differs from its input
NonDestructiveWitness ==
    /\ pc = "done"
    /\ out_xlsx(manifest_path) \in DOMAIN fs
    /\ fs[out_xlsx(manifest_path)] # fs[manifest_path]

\* the raw text of the cells of a row of sheet n of the input workbook
RawRows(n) == Range(fs[manifest_path][n].rows)

\* C8 (as claimed): every row of a working-set table, and every row of the
\* workbook written from it, is a row of the input sheet with the raw text
\* of every cell.
RawCellsPreserved ==
    /\ \A k \in 1..Len(workbook_list) :
          Range(workbook_list[k].rows) \subseteq RawRows(workbook_list[k].node)
    /\ pc = "done" =>
          \A k \in 1..Len(workbook_list) :
              Range(fs[out_xlsx(manifest_path)][workbook_list[k].node].rows)
                  \subseteq RawRows(workbook_list[k].node)

\* the lines of s that are not missing values, in order
RECURSIVE DropMissing(_)
DropMissing(s) ==
    IF s = <<>> THEN <<>>
    ELSE IF Head(s) \in CsvNaDefaults THEN DropMissing(Tail(s))
         ELSE <<Head(s)>> \o DropMissing(Tail(s))

WorklistInitialised == pc = "openlog"

\* C9 (as claimed): the initial worklist is the request in source order
\* without its blank entries and without repeated identifiers.
InitialWorklistUnique ==
    WorklistInitialised => (pending = DropMissing(fs[EntryFile]) /\ IsOneToOne(pending))

\* C9 (amended): the initial worklist is the request in source order without
\* its missing-value lines; repeated identifiers are kept, each as often as
\* the request names it.
InitialWorklistKeepsDuplicates ==
    WorklistInitialised =>
        /\ pending = DropMissing(fs[EntryFile])
        /\ \A e \in Range(fs[EntryFile]) \ CsvNaDefaults :
              Cardinality({i \in 1..Len(pending) : pending[i] = e})
                  = Cardinality({i \in 1..Len(fs[EntryFile]) : fs[EntryFile][i] = e})

\* the worklist was initialised from a request that names an entry twice
InitialWorklistWitness ==
    /\ WorklistInitialised
    /\ ~IsOneToOne(pending)

\* the entries of the log lines <<kind, entry, node, ...>> of node n, in order
RECURSIVE LinesOf(_, _, _)
LinesOf(lg, kind, n) ==
    IF lg = <<>> THEN <<>>
    ELSE (IF Len(Head(lg)) >= 3 /\ Head(lg)[1] = kind /\ Head(lg)[3] = n
          THEN <<Head(lg)[2]>> ELSE <<>>) \o LinesOf(Tail(lg), kind, n)

\* the entry of the last "Removing" line among the first i lines of the log
RECURSIVE CurrentAt(_)
CurrentAt(i) ==
    IF i = 0 THEN NaN
    ELSE IF log[i][1] = "Removing" THEN log[i][2] ELSE CurrentAt(i - 1)

\* C10: the log opens with the request; every "dropped" line names the entry
\* of the latest "Removing" line before it and every "discovered" line
\* follows a "Removing" line; the deletion record of a node-kind is at every
\* moment the list of the entries of its "dropped" lines, in their order;
\* and the log ends with the summary, which lists for every node-kind of the
\* working set, in order, exactly that record.
AuditTrailFidelity ==
    (log # <<>>) =>
        /\ log[1] = <<"Entries to remove">>
        /\ \A n \in DOMAIN deleted : deleted[n] = LinesOf(log, "dropped", n)
        /\ \A i \in 1..Len(log) :
              /\ log[i][1] = "dropped" => (i > 1 /\ CurrentAt(i - 1) = log[i][2])
              /\ log[i][1] = "discovered" =>
                    \E i0 \in 1..(i - 1) : log[i0][1] = "Removing"
        /\ Exhausted =>
              LET m == Len(log) - Len(workbook_list)
              IN  /\ m >= 1
                  /\ log[m] = <<"Summary">>
                  /\ \A i \in 1..(m - 1) : log[i][1] # "Summary" /\ log[i][1] # "sheet"
                  /\ \A k \in 1..Len(workbook_list) :
                        log[m + k] = <<"sheet", workbook_list[k].node,
                                       LinesOf(SubSeq(log, 1, m - 1), "dropped",
                                               workbook_list[k].node)>>

\* a summary was written that lists two entries removed from one node-kind
AuditTrailWitness ==
    /\ Exhausted
    /\ \E n \in DOMAIN deleted : Len(deleted[n]) >= 2
    /\ log[Len(log)][1] = "sheet"


\* the failures that come from outside the data: arguments, template, disk
EnvironmentErrors == {"usage", "schema", "persist"}

TablesLoaded == pc \notin {"start", "schema", "load"}

LoopEntered == log # <<>>

\* every cell of the tables L
CellsOf(L) ==
    UNION {UNION {Range(L[k].rows[i]) : i \in 1..Len(L[k].rows)} : k \in 1..Len(L)}

\* the request names at least one entry, and none of them occurs in a cell
\* of a working-set table
AbsentRequest(L) ==
    /\ ParseEntries(fs[EntryFile]) # <<>>
    /\ Range(ParseEntries(fs[EntryFile])) \cap CellsOf(L) = {}

\* C11: when the request names entries none of which occurs in a working-set
\* table, the loop raises no error, every table keeps the rows it was loaded
\* with, nothing is recorded as dropped or discovered, the summary lists an
\* empty removal set for every node-kind, and the workbook that is written
\* holds every table with the rows it was loaded with.
AbsentEntryNoEffect ==
    LET L == Loaded
    IN  (LoopEntered /\ AbsentRequest(L)) =>
            /\ pc = "failed" => err = "persist"
            /\ \A k \in 1..Len(workbook_list) : workbook_list[k].rows = L[k].rows
            /\ \A n \in DOMAIN deleted : deleted[n] = <<>>
            /\ \A i \in 1..Len(log) : log[i][1] \notin {"dropped", "discovered"}
            /\ Exhausted =>
                  \A k \in 1..Len(workbook_list) :
                      log[Len(log) - Len(workbook_list) + k]
                          = <<"sheet", workbook_list[k].node, <<>>>>
            /\ pc = "done" =>
                  \A k \in 1..Len(L) :
                      fs[out_xlsx(manifest_path)][L[k].node] = SheetOfFrame(L[k])

\* a first run has ended whose request named an entry that no table of a
\* non-empty working set holds
AbsentEntryWitness ==
    /\ pc = "done"
    /\ run = 1
    /\ AbsentRequest(Loaded)
    /\ \E k \in 1..Len(workbook_list) :
          IdIdx(workbook_list[k]) # 0 /\ Len(workbook_list[k].rows) > 0

\* the sheets of the input workbook that have a row and link columns only
LinkOnlySheets ==
    {n \in DOMAIN fs[manifest_path] :
        /\ Len(fs[manifest_path][n].rows) >= 1
        /\ fs[manifest_path][n].cols # <<>>
        /\ \A j \in 1..Len(fs[manifest_path][n].cols) : HasDot(fs[manifest_path][n].cols[j])}

\* the node-kinds of the working set
WorkingNodes == {workbook_list[k].node : k \in 1..Len(workbook_list)}

\* the log line names node n as the table of a drop, a discovery or a summary
LineNames(line, n) ==
    \/ line[1] \in {"dropped", "discovered"} /\ line[3] = n
    \/ line[1] = "sheet" /\ line[2] = n

\* C12: a table with at least one row and link columns only is never in the
\* working set: it has no deletion record, no log line names it (none of its
\* rows is dropped, none is read as a child), the written workbook holds its
\* sheet as the input had it, and the run does not end with the validation
\* error while another table is usable.
UnusableTableExcluded ==
    TablesLoaded =>
        \A n \in LinkOnlySheets :
            /\ n \notin WorkingNodes
            /\ n \notin DOMAIN deleted
            /\ \A i \in 1..Len(log) : ~LineNames(log[i], n)
            /\ pc = "done" => fs[out_xlsx(manifest_path)][n] = fs[manifest_path][n]
            /\ (pc = "failed" /\ err = "validation") =>
                  \A m \in Range(node_list) :
                      LET df == read_excel(fs[manifest_path], m, blankAs)
                      IN  df = ValueError \/ ~Usable(df)

\* a run has ended that removed an entry to which a row of a link-only table
\* links, next to a usable table
UnusableTableWitness ==
    /\ pc = "done"
    /\ workbook_list # <<>>
    /\ \E n \in LinkOnlySheets :
          \E i \in 1..Len(fs[manifest_path][n].rows) :
              Range(fs[manifest_path][n].rows[i]) \cap RemovedEntries # {}

\* the lines of the log of one kind, in order
LinesOfKind(kind) == Keep(log, {i \in 1..Len(log) : log[i][1] = kind})

\* the entries popped so far, in the order of their "Removing" lines
Popped == [i \in 1..Len(LinesOfKind("Removing")) |-> LinesOfKind("Removing")[i][2]]

\* an exception has ended the loop in the middle of an iteration
IterationAborted == pc = "failed" /\ err = "KeyError"

\* once an identifier has been popped no row of a working-set table carries
\* it, no later line of the log reports it as a discovered child, and with a
\* request that names no entry twice no identifier is popped twice
PoppedIdentifiersGone ==
    ~IterationAborted =>
        /\ \A i \in 1..Len(log) :
              (log[i][1] = "Removing" /\ log[i][2] # NaN) =>
                  /\ \A k \in 1..Len(workbook_list) :
                        IdIdx(workbook_list[k]) # 0 =>
                            log[i][2] \notin Column(workbook_list[k], IdIdx(workbook_list[k]))
                  /\ \A j \in (i + 1)..Len(log) :
                        ~(log[j][1] = "discovered" /\ log[j][2] = log[i][2])
        /\ IsOneToOne(ParseEntries(fs[EntryFile])) =>
              IsOneToOne(Keep(Popped, {i \in 1..Len(Popped) : Popped[i] # NaN}))

\* the identifiers that the rows of the tables wl carry
LiveIds(wl) ==
    UNION {Column(wl[k], IdIdx(wl[k])) \ {NaN} :
              k \in {k2 \in 1..Len(wl) : IdIdx(wl[k2]) # 0}}

\* the weight of the work that is left for the worklist pend on the tables
\* wl: a pending identifier counts 2, a pending missing value 1, and an
\* identifier that a row still carries and that is not pending counts 3.
\* An iteration takes 2 or 1 for the entry it pops, gives back at most 1 for
\* a missing value it appends, and takes 1 for every identifier it appends.
WorkLeft(wl, pend) ==
    2 * Cardinality({i \in 1..Len(pend) : pend[i] # NaN})
      + Cardinality({i \in 1..Len(pend) : pend[i] = NaN})
      + 3 * Cardinality(LiveIds(wl) \ Range(pend))

\* C13: the worklist loop terminates on every dataset, cyclic ones included:
\* the number of entries popped so far plus the weight of the work that is
\* left never exceeds the weight of the work the loop started with, so the
\* loop makes at most that many iterations (an iteration that an exception
\* aborts ends the loop at once); and an identifier that has been popped is
\* carried by no row, is never discovered again, and, with a request that
\* names no entry twice, has been popped once.
TerminatesOnAnyData ==
    (LoopEntered /\ ~IterationAborted) =>
        /\ Len(Popped) + WorkLeft(workbook_list, pending)
              <= WorkLeft(Loaded, ParseEntries(fs[EntryFile]))
        /\ PoppedIdentifiersGone

\* a run has ended on tables in which an identifier is its own ancestor,
\* after a removed entry led to the removal of a child
CyclicDataWitness ==
    /\ pc = "done"
    /\ ~Acyclic(Loaded)
    /\ \E i \in 1..Len(log) : log[i][1] = "discovered" /\ log[i][2] \in RemovedEntries

\* the indices of the log lines of one kind, in order
RECURSIVE IndicesOfKind(_, _)
IndicesOfKind(kind, n) ==
    IF n = 0 THEN <<>>
    ELSE IndicesOfKind(kind, n - 1) \o (IF log[n][1] = kind THEN <<n>> ELSE <<>>)

\* the entries in the order they entered the worklist: the request, then the
\* discovered children
Entered ==
    ParseEntries(fs[EntryFile])
        \o [i \in 1..Len(LinesOfKind("discovered")) |-> LinesOfKind("discovered")[i][2]]

\* the dependency generation of the n-th entry that entered the worklist: 0
\* for an entry of the request, one more than the generation of the entry
\* that was being processed for a discovered child
RECURSIVE GenerationOf(_)
GenerationOf(n) ==
    IF n <= Len(ParseEntries(fs[EntryFile])) THEN 0
    ELSE LET at     == IndicesOfKind("discovered", Len(log))[n - Len(ParseEntries(fs[EntryFile]))]
             parent == Len(IndicesOfKind("Removing", at))
         IN  GenerationOf(parent) + 1

\* C14: entries leave the worklist in the order they entered it: the popped
\* entries followed by the pending ones are the entered ones, in order; and
\* the generations of the popped entries never decrease.
BreadthFirstOrder ==
    LoopEntered =>
        /\ Popped \o pending = Entered
        /\ \A i, j \in 1..Len(Popped) : i < j => GenerationOf(i) <= GenerationOf(j)

\* a run has ended in which a child discovered under the first entry of the
\* request was popped after the second entry of the request
BreadthFirstWitness ==
    /\ pc = "done"
    /\ Len(ParseEntries(fs[EntryFile])) = 2
    /\ Len(Popped) >= 3
    /\ GenerationOf(3) = 1
    /\ IndicesOfKind("discovered", Len(log))[1] < IndicesOfKind("Removing", Len(log))[2]

\* the entries of the lines of one kind among the first n lines of the log
\* (of node nd when nd is not "")
RECURSIVE EntriesUpTo(_, _, _)
EntriesUpTo(kind, nd, n) ==
    IF n = 0 THEN <<>>
    ELSE EntriesUpTo(kind, nd, n - 1)
            \o (IF log[n][1] = kind /\ (nd = "" \/ log[n][3] = nd)
                THEN <<log[n][2]>> ELSE <<>>)

\* the worklist as it was when the first n lines of the log had been written
PendingAt(n) ==
    LET entered == ParseEntries(fs[EntryFile]) \o EntriesUpTo("discovered", "", n)
    IN  SubSeq(entered, Len(EntriesUpTo("Removing", "", n)) + 1, Len(entered))

\* how often e occurs in the list s
Occurrences(s, e) == Cardinality({i \in 1..Len(s) : s[i] = e})

\* every append was guarded: a child reported as discovered was, at that
\* moment, neither in the worklist nor in the deletion record of its node
AppendsGuarded ==
    \A i \in 1..Len(log) :
        log[i][1] = "discovered" =>
            /\ ~PyIn(log[i][2], PendingAt(i - 1))
            /\ ~PyIn(log[i][2], EntriesUpTo("dropped", log[i][3], i - 1))

\* every other child was appended, with one log line each: after an
\* iteration the child of every row that links to the popped entry is in the
\* worklist or in the deletion record of its node, and the worklist has
\* grown by one entry for every "discovered" line
ChildrenAppended ==
    (~IterationAborted /\ Popped # <<>>) =>
        /\ \A k \in 1..Len(workbook_list) :
              IdIdx(workbook_list[k]) # 0 =>
                  \A i \in 1..Len(workbook_list[k].rows) :
                      (\E j \in LinkIdxs(workbook_list[k]) :
                          CellEq(workbook_list[k].rows[i][j], Popped[Len(Popped)])) =>
                          \/ PyIn(workbook_list[k].rows[i][IdIdx(workbook_list[k])], pending)
                          \/ PyIn(workbook_list[k].rows[i][IdIdx(workbook_list[k])],
                                  deleted[workbook_list[k].node])
        /\ Len(Popped) + Len(pending)
              = Len(ParseEntries(fs[EntryFile])) + Len(LinesOfKind("discovered"))

\* C15 (as claimed): appends are guarded, every other discovered child is
\* appended with one log line, and the worklist never holds the same entry
\* twice.
WorklistNeverRepeats ==
    LoopEntered => (AppendsGuarded /\ ChildrenAppended /\ IsOneToOne(pending))

\* C15 (amended): appends are guarded and every other discovered child is
\* appended with one log line, so the worklist never holds a discovered
\* child twice: an entry is in the worklist more than once only if, and at
\* most as often as, the request names it.
WorklistRepeatsOnlyRequest ==
    LoopEntered =>
        /\ AppendsGuarded
        /\ ChildrenAppended
        /\ \A e \in Range(pending) :
              \/ Occurrences(pending, e) = 1
              \/ Occurrences(pending, e) <= Occurrences(ParseEntries(fs[EntryFile]), e)

\* two rows that carry the same identifier link to the entry just popped,
\* and that identifier was reported as discovered once
EnqueueGuardWitness ==
    /\ pc = "loop"
    /\ Popped # <<>>
    /\ \E k \in 1..Len(workbook_list) :
          /\ IdIdx(workbook_list[k]) # 0
          /\ \E i1, i2 \in 1..Len(workbook_list[k].rows) :
                /\ i1 # i2
                /\ workbook_list[k].rows[i1][IdIdx(workbook_list[k])]
                      = workbook_list[k].rows[i2][IdIdx(workbook_list[k])]
                /\ \A i \in {i1, i2} :
                      \E j \in LinkIdxs(workbook_list[k]) :
                          CellEq(workbook_list[k].rows[i][j], Popped[Len(Popped)])
                /\ Occurrences(EntriesUpTo("discovered", "", Len(log)),
                               workbook_list[k].rows[i1][IdIdx(workbook_list[k])]) = 1

\* the tables of L that hold x in their identifier column
TablesWithId(L, x) ==
    {k \in 1..Len(L) : IdIdx(L[k]) # 0 /\ x \in Column(L[k], IdIdx(L[k]))}

\* C16: when a popped entry is an identifier in two or more of the loaded
\* tables, then after its iteration none of those tables has a row with that
\* identifier and the deletion record of each of them names the entry, once,
\* whichever table's link column the entry was discovered in.
FanOutAcrossTables ==
    ~IterationAborted =>
        LET L == Loaded
        IN  \A x \in Range(Popped) \ {NaN} :
                Cardinality(TablesWithId(L, x)) >= 2 =>
                    \A k \in TablesWithId(L, x) :
                        /\ x \notin Column(workbook_list[k], IdIdx(workbook_list[k]))
                        /\ Occurrences(deleted[L[k].node], x) = 1

\* a run has ended in which an entry discovered in the link column of one
\* table was dropped from that table and from another one
FanOutWitness ==
    /\ pc = "done"
    /\ \E i, j1, j2 \in 1..Len(log) :
          /\ log[i][1] = "discovered"
          /\ log[j1][1] = "dropped" /\ log[j1][2] = log[i][2] /\ log[j1][3] = log[i][3]
          /\ log[j2][1] = "dropped" /\ log[j2][2] = log[i][2] /\ log[j2][3] # log[i][3]

\* C17 (as claimed): with a table in the working set that has no identifier
\* column of its own, step (a) is skipped for that table (no line reports a
\* drop from it) and the loop still ends with an empty worklist and the
\* summary written, no exception raised.
IdlessTableProcessed ==
    (LoopLeft /\ \E k \in 1..Len(workbook_list) : IdIdx(workbook_list[k]) = 0) =>
        /\ \A k \in 1..Len(workbook_list) :
              IdIdx(workbook_list[k]) = 0 =>
                  LinesOf(log, "dropped", workbook_list[k].node) = <<>>
        /\ err # "KeyError"
        /\ pending = <<>>
        /\ SummaryWritten

\* the load of the tables has been attempted in this run
LoadAttempted == pc \notin {"start", "schema", "load"} /\ err \notin {"usage", "schema"}

\* every node-kind's sheet is missing, has no row, or has link columns only
NoUsableSheet ==
    \A n \in Range(node_list) :
        \/ n \notin DOMAIN fs[manifest_path]
        \/ fs[manifest_path][n].rows = <<>>
        \/ \A j \in 1..Len(fs[manifest_path][n].cols) : HasDot(fs[manifest_path][n].cols[j])

\* C18: when no table is usable after every node-kind was tried, missing
\* sheets having been skipped, the run ends with the validation error; and
\* when it does, the request has not been read, the log has not been opened
\* (no log file, no workbook written) and no row has been removed.
ValidationErrorFirst ==
    /\ (LoadAttempted /\ (NoUsableSheet \/ Loaded = <<>>)) =>
          (pc = "failed" /\ err = "validation")
    /\ (pc = "failed" /\ err = "validation") =>
          /\ workbook_list = <<>>
          /\ pending = <<>>
          /\ deleted = <<>>
          /\ log = <<>>
          /\ ~logOpen
          /\ log_txt(manifest_path) \notin DOMAIN fs
          /\ out_xlsx(manifest_path) \notin DOMAIN fs

\* a first run has ended with the validation error on a workbook that lacks
\* the sheet of one node-kind and whose other sheet has a row but is not
\* usable, with a request that names an entry
ValidationErrorWitness ==
    /\ run = 1
    /\ pc = "failed"
    /\ err = "validation"
    /\ \E n \in Range(node_list) : n \notin DOMAIN fs[manifest_path]
    /\ \E n \in DOMAIN fs[manifest_path] : Len(fs[manifest_path][n].rows) >= 1
    /\ ParseEntries(fs[EntryFile]) # <<>>

\* C19: the log is open exactly while the loop and the summary run; it is
\* closed, with every line written to the file, when the loop is left by an
\* exception and when the summary is done, which is before the workbook is
\* written and before success is reported, whether or not a row was removed.
LogLifecycle ==
    /\ logOpen <=> pc = "loop"
    /\ (pc \in {"persist", "done"} \/ (pc = "failed" /\ err \in {"KeyError", "persist"})) =>
          /\ ~logOpen
          /\ log_txt(manifest_path) \in DOMAIN fs
          /\ fs[log_txt(manifest_path)] = log
    /\ out_xlsx(manifest_path) \in DOMAIN fs => ~logOpen

\* the loop was left by an exception, after it had written lines to the log
LogClosedOnErrorWitness ==
    /\ pc = "failed"
    /\ err = "KeyError"
    /\ ~logOpen
    /\ Len(fs[log_txt(manifest_path)]) >= 3

\* main() has been started by the flow
CoreStarted == pc # "idle"

\* the flow stages before it runs and ships after: when main() has been
\* started all three inputs are staged and present; with a local input that
\* is missing the flow fails and main() is never started; and nothing is
\* uploaded before main() has ended
FlowOrdering ==
    /\ CoreStarted =>
          /\ flow.staged = FlowInputs
          /\ Range(FlowInputs) \subseteq DOMAIN fs
    /\ (\E p \in Range(FlowInputs) : flow.paths[p] = "missing") =>
          /\ ~CoreStarted
          /\ flow.pc \in {"stage", "failed"}
    /\ flow.uploaded # {} =>
          /\ pc \in {"done", "failed"}
          /\ flow.returncode # "none"

\* C20 (as claimed): the flow stages the three inputs before main() is
\* started, uploads nothing before main() has ended, and, with an output
\* location configured, has uploaded the cleaned workbook and the log of the
\* run when it is through with shipping.
FlowShipsBothArtifacts ==
    /\ FlowOrdering
    /\ (flow.pc \in {"publish", "completed"} /\ flow.s3_output_prefix /\ pc = "done") =>
          {out_xlsx(manifest_path), log_txt(manifest_path)} \subseteq flow.uploaded


====
